---- MODULE Spec2Model ----
(***************************************************************************)
(* Adaptive Code Intelligence Engine: CodeAnalyzer (syntax-tree walker,    *)
(* lexical rule engine, score composer, file analysis assembler) and the   *)
(* AdaptiveCodeIntelligence driver (history, directory batch, summary).    *)
(*                                                                         *)
(* Representation.                                                         *)
(*  - A syntax tree is a sequence of nodes in source (pre-)order; node 1   *)
(*    is the Module, every other node names its parent by index.  Nodes of *)
(*    kinds the analyzer does not test for are kept as kind "Other", so    *)
(*    that depth, and with it the breadth-first order of ast.walk, is that *)
(*    of the real tree.  ast.get_docstring(node) is the node's doc field:  *)
(*    "None", "Empty" (a literal that cleans to '') or "Text".             *)
(*  - A physical line is the set of regular expressions that re.search     *)
(*    finds in it.                                                         *)
(*  - A dict is a function whose DOMAIN is the set of keys present.        *)
(*  - A score is an exact rational held as an integer number of 1/Scale    *)
(*    points (the source computes in binary floating point).               *)
(*  - Result fields that need identifiers or source text (names, args,     *)
(*    signature, bases, decorators, imports, returns, break/continue,      *)
(*    stripped line content) are left out of the records.                  *)
(***************************************************************************)
EXTENDS Integers, Sequences, FiniteSets, TLC

VARIABLES
    files,              \* list(directory.rglob("*.py")): the discovered files, in discovery order
    analyzer,           \* the CodeAnalyzer instance: its rule tables and weights
    analysis_history,   \* AdaptiveCodeIntelligence.analysis_history
    developer_id,       \* AdaptiveCodeIntelligence.developer_id
    now,                \* the clock read by time.time()
    ret,                \* value returned by the last public call
    summary,            \* what the last _generate_directory_summary printed
    calls,              \* log of the CodeAnalyzer.analyze_file calls made so far
    input,              \* the source file under analysis (single-call specifications)
    output,             \* the result of analysing it
    pc                  \* "input" while the input is written, "done" once analysed, "sys"

vars == <<files, analyzer, analysis_history, developer_id, now, ret, summary,
          calls, input, output, pc>>

sysvars == <<files, analyzer, analysis_history, developer_id, now, ret, summary, calls>>

(***************************************************************************)
(* Bounds                                                                  *)
(***************************************************************************)
MaxNodes == 3          \* nodes below the Module in a generated tree
MaxTextNodes == 1      \* the same, when the text has lines that match rules
MaxLines == 2          \* physical lines in a generated text
MaxDiags == 2          \* diagnostics handed to the score composer
MaxFuncs == 2          \* function records handed to the score composer
MaxComplexity == 40    \* largest max_function_complexity handed to the score composer
MaxFiles == 2          \* files discovered in the directory
MaxCalls == 3          \* CodeAnalyzer.analyze_file calls in one behaviour

None == "None"

(***************************************************************************)
(* dict helpers                                                            *)
(***************************************************************************)
EmptyDict == [k \in {} |-> 0]

DictGet(d, k, default) == IF k \in DOMAIN d THEN d[k] ELSE default

DictSet(d, k, v) == (k :> v) @@ d

Max(a, b) == IF a >= b THEN a ELSE b

Min(a, b) == IF a <= b THEN a ELSE b

RECURSIVE SumSeq(_)
SumSeq(s) == IF s = <<>> THEN 0 ELSE Head(s) + SumSeq(Tail(s))

Count(s, P(_)) == Len(SelectSeq(s, P))

(***************************************************************************)
(* Syntax trees                                                            *)
(***************************************************************************)
Node(kind, parent, doc) == [kind |-> kind, parent |-> parent, doc |-> doc]

ModuleNode == Node("Module", 0, None)

Root == Len(<<ModuleNode>>)

\* ast.iter_child_nodes: the direct children, in source order
iter_child_nodes(tree, node) ==
    SelectSeq([j \in 1..Len(tree) |-> j], LAMBDA j : tree[j].parent = node)

\* ast.walk: todo = deque([node]); popleft, extend with the children, yield
RECURSIVE walk_loop(_, _, _)
walk_loop(tree, todo, out) ==
    IF todo = <<>> THEN out
    ELSE walk_loop(tree, Tail(todo) \o iter_child_nodes(tree, Head(todo)),
                   Append(out, Head(todo)))

walk(tree, node) == walk_loop(tree, <<node>>, <<>>)

isinstance(tree, node, kinds) == tree[node].kind \in kinds

\* ast.get_docstring(node)
get_docstring(tree, node) == tree[node].doc

\* truth value of a docstring: None and '' are falsy
Truthy(doc) == doc \notin {None, "Empty"}

BranchKinds == {"If", "While", "For"}
LoopKinds == {"For", "While"}
FunctionKinds == {"FunctionDef", "AsyncFunctionDef"}

(***************************************************************************)
(* CodeAnalyzer._calculate_complexity                                      *)
(***************************************************************************)
Incr(d, k) == DictSet(d, k, DictGet(d, k, 0) + 1)

\* sum(1 for n in ast.walk(node) if isinstance(n, (ast.If, ast.While, ast.For)))
func_complexity(tree, node) ==
    Count(walk(tree, node), LAMBDA n : isinstance(tree, n, BranchKinds))

\* the maximum assigned, not folded: complexity[...] = func_complexity
LastComplexity(complexity, fc) == fc

\* running maximum: max(complexity['max_function_complexity'], func_complexity)
RunningMax(complexity, fc) == Max(DictGet(complexity, "max_function_complexity", 0), fc)

\* one iteration of the loop over ast.walk(tree)
complexity_visit(tree, complexity, node) ==
    CASE isinstance(tree, node, BranchKinds) -> Incr(complexity, "cyclomatic")
      [] isinstance(tree, node, {"Try"}) -> Incr(complexity, "try_blocks")
      [] isinstance(tree, node, {"ExceptHandler"}) -> Incr(complexity, "except_blocks")
      [] isinstance(tree, node, FunctionKinds) ->
            DictSet(Incr(complexity, "functions"), "max_function_complexity",
                    RunningMax(Incr(complexity, "functions"), func_complexity(tree, node)))
      [] isinstance(tree, node, {"ClassDef"}) -> Incr(complexity, "classes")
      [] isinstance(tree, node, {"Comp"}) -> Incr(complexity, "comprehensions")
      [] OTHER -> complexity

\* the defaultdict after the first k iterations of the loop
RECURSIVE complexity_after(_, _)
complexity_after(tree, k) ==
    IF k = 0 THEN EmptyDict
    ELSE complexity_visit(tree, complexity_after(tree, k - 1), walk(tree, Root)[k])

\* the accumulator kept across calls: the loop starts from the dict the last
\* successful analysis ended with
RECURSIVE complexity_from(_, _, _)
complexity_from(tree, start, k) ==
    IF k = 0 THEN start
    ELSE complexity_visit(tree, complexity_from(tree, start, k - 1), walk(tree, Root)[k])

complexity_carried_over(tree) ==
    LET done == SelectSeq(calls, LAMBDA c : "complexity" \in DOMAIN c.result)
        start == IF Len(done) = 0 THEN EmptyDict ELSE done[Len(done)].result.complexity
    IN  complexity_from(tree, start, Len(walk(tree, Root)))

_calculate_complexity(tree) == complexity_after(tree, Len(walk(tree, Root)))

(***************************************************************************)
(* CodeAnalyzer._extract_patterns and the three pattern analyses           *)
(***************************************************************************)
_analyze_function_pattern(tree, node) ==
    [type |-> "function",
     node |-> node,
     docstring |-> get_docstring(tree, node) # None,
     complexity |-> Count(walk(tree, node), LAMBDA n : isinstance(tree, n, BranchKinds))]

\* every function below the class taken for a method: ast.walk(node) for node.body
ClassMethodsDeep(tree, node) ==
    SelectSeq(walk(tree, node), LAMBDA n : isinstance(tree, n, {"FunctionDef"}))

\* methods = [n for n in node.body if isinstance(n, ast.FunctionDef)]
ClassMethods(tree, node) ==
    SelectSeq(iter_child_nodes(tree, node), LAMBDA n : isinstance(tree, n, {"FunctionDef"}))

_analyze_class_pattern(tree, node) ==
    [type |-> "class",
     node |-> node,
     methods_count |-> Len(ClassMethods(tree, node)),
     docstring |-> get_docstring(tree, node) # None]

_analyze_loop_pattern(tree, node) ==
    [type |-> "loop",
     loop_type |-> IF isinstance(tree, node, {"For"}) THEN "for" ELSE "while",
     node |-> node,
     nested_loops |-> Count(walk(tree, node),
                            LAMBDA n : isinstance(tree, n, LoopKinds) /\ n # node)]

\* the records one node appends to `patterns`
pattern_of(tree, node) ==
    CASE isinstance(tree, node, {"FunctionDef"}) -> <<_analyze_function_pattern(tree, node)>>
      [] isinstance(tree, node, {"ClassDef"}) -> <<_analyze_class_pattern(tree, node)>>
      [] isinstance(tree, node, LoopKinds) -> <<_analyze_loop_pattern(tree, node)>>
      [] OTHER -> <<>>

RECURSIVE Flatten(_)
Flatten(ss) == IF ss = <<>> THEN <<>> ELSE Head(ss) \o Flatten(Tail(ss))

Map(s, F(_)) == [i \in 1..Len(s) |-> F(s[i])]

_extract_patterns(tree) == Flatten(Map(walk(tree, Root), LAMBDA n : pattern_of(tree, n)))

(***************************************************************************)
(* CodeAnalyzer._analyze_functions, _analyze_classes                       *)
(***************************************************************************)
func_info(tree, node) ==
    [node |-> node,
     docstring |-> get_docstring(tree, node),
     is_async |-> isinstance(tree, node, {"AsyncFunctionDef"})]

_analyze_functions(tree) ==
    Map(SelectSeq(walk(tree, Root), LAMBDA n : isinstance(tree, n, {"FunctionDef"})),
        LAMBDA n : func_info(tree, n))

class_info(tree, node) ==
    [node |-> node,
     methods |-> ClassMethods(tree, node),
     docstring |-> get_docstring(tree, node)]

_analyze_classes(tree) ==
    Map(SelectSeq(walk(tree, Root), LAMBDA n : isinstance(tree, n, {"ClassDef"})),
        LAMBDA n : class_info(tree, n))

\* the three lists of import names, in walk order; an import statement is a node
\* whose kind says where its module name is filed
_analyze_imports(tree) ==
    LET named(kinds) == SelectSeq(walk(tree, Root), LAMBDA n : isinstance(tree, n, kinds))
    IN  [standard |-> named({"ImportStandard"}),
         third_party |-> named({"ImportThirdParty"}),
         relative |-> named({"ImportRelative"})]

(***************************************************************************)
(* CodeAnalyzer.__init__: the rule tables, in insertion order              *)
(***************************************************************************)
BugRules == <<"unused_variable", "duplicate_code", "long_line", "deep_nesting",
              "magic_number", "bare_except", "mutable_default", "global_variable">>

OptRules == <<"list_comprehension", "string_concatenation", "inefficient_membership",
              "repeated_calculation">>

\* the regular expression a rule is given in the table
PatternOf(rule) == <<"re", rule>>

CodeAnalyzer_init ==
    [complexity_weights |-> [if |-> 1, for |-> 2, while |-> 2, try |-> 1, except |-> 1,
                             with |-> 1, lambda |-> 1, comprehension |-> 2,
                             nested_function |-> 3],
     bug_patterns |-> Map(BugRules, LAMBDA r : <<r, PatternOf(r)>>),
     optimization_patterns |-> Map(OptRules, LAMBDA r : <<r, PatternOf(r)>>)]

(***************************************************************************)
(* Lexical rule engine                                                     *)
(***************************************************************************)
\* re.search(pattern, line)
re_search(pattern, line) == pattern \in line

SeverityMap ==
    [unused_variable |-> "low", duplicate_code |-> "medium", long_line |-> "low",
     deep_nesting |-> "medium", magic_number |-> "low", bare_except |-> "high",
     mutable_default |-> "high", global_variable |-> "medium"]

\* bare_except promoted to the reserved severity
severity_with_critical(bug_type) ==
    IF bug_type = "bare_except" THEN "critical" ELSE DictGet(SeverityMap, bug_type, "low")

_assess_bug_severity(bug_type) == DictGet(SeverityMap, bug_type, "low")

ImpactMap ==
    [list_comprehension |-> "medium", string_concatenation |-> "high",
     inefficient_membership |-> "high", repeated_calculation |-> "medium"]

_assess_optimization_impact(opt_type) == DictGet(ImpactMap, opt_type, "low")

\* a break after the first rule that matches: one diagnostic per line at most
bugs_of_line_first_match(self, line_num, line) ==
    LET found == SelectSeq(self.bug_patterns, LAMBDA r : re_search(r[2], line))
    IN  IF found = <<>> THEN <<>>
        ELSE <<[type |-> found[1][1], line |-> line_num,
                severity |-> _assess_bug_severity(found[1][1]), pattern |-> found[1][2]]>>

\* the diagnostics of one physical line: one per rule that matches, in table order
bugs_of_line(self, line_num, line) ==
    Map(SelectSeq(self.bug_patterns, LAMBDA r : re_search(r[2], line)),
        LAMBDA r : [type |-> r[1], line |-> line_num,
                    severity |-> _assess_bug_severity(r[1]), pattern |-> r[2]])

_detect_potential_bugs(self, lines) ==
    Flatten([i \in 1..Len(lines) |-> bugs_of_line(self, i, lines[i])])

opts_of_line(self, line_num, line) ==
    Map(SelectSeq(self.optimization_patterns, LAMBDA r : re_search(r[2], line)),
        LAMBDA r : [type |-> r[1], line |-> line_num,
                    impact |-> _assess_optimization_impact(r[1])])

_find_optimizations(self, lines) ==
    Flatten([i \in 1..Len(lines) |-> opts_of_line(self, i, lines[i])])

(***************************************************************************)
(* Score composer.  Scores are integers counting 1/Scale points; Scale is  *)
(* a multiple of every function count that can occur, so the docstring     *)
(* ratio times ten is held exactly.                                        *)
(***************************************************************************)
RECURSIVE Gcd(_, _)
Gcd(a, b) == IF b = 0 THEN a ELSE Gcd(b, a % b)

RECURSIVE LcmUpTo(_)
LcmUpTo(n) == IF n <= 1 THEN 1 ELSE (LcmUpTo(n - 1) * n) \div Gcd(LcmUpTo(n - 1), n)

Scale == LcmUpTo(Max(MaxFuncs, MaxNodes))

Points(n) == n * Scale

\* a high-severity diagnostic charged as a medium one
PenaltyHighAsMedium(severity) ==
    CASE severity = "critical" -> 20
      [] severity = "high" -> 5
      [] severity = "medium" -> 5
      [] OTHER -> 2

Penalty(severity) ==
    CASE severity = "critical" -> 20
      [] severity = "high" -> 10
      [] severity = "medium" -> 5
      [] OTHER -> 2

\* for bug in bugs: score -= ...
RECURSIVE score_after_bugs(_, _)
score_after_bugs(score, bugs) ==
    IF bugs = <<>> THEN score
    ELSE score_after_bugs(score - Points(Penalty(Head(bugs).severity)), Tail(bugs))

\* if max_func_complexity > 10: score -= (max_func_complexity - 10) * 3
score_after_complexity(score, analysis) ==
    LET complexity == DictGet(analysis, "complexity", EmptyDict)
        max_func_complexity == DictGet(complexity, "max_function_complexity", 0)
    IN  IF max_func_complexity > 10 THEN score - Points((max_func_complexity - 10) * 3)
        ELSE score

\* if functions: score += docstring_ratio * 10
score_after_bonus(score, analysis) ==
    LET functions == DictGet(analysis, "functions", <<>>)
        documented == Count(functions, LAMBDA f : Truthy(DictGet(f, "docstring", None)))
    IN  IF Len(functions) > 0 THEN score + (Points(documented * 10) \div Len(functions))
        ELSE score

\* the lower clamp forgotten: min(100.0, score)
ClampAboveOnly(score) == Min(Points(100), score)

\* max(0.0, min(100.0, score))
Clamp(score) == Max(Points(0), Min(Points(100), score))

\* the value of `score` when the return statement is reached
RawScore(analysis) ==
    score_after_bonus(
        score_after_complexity(
            score_after_bugs(Points(100), DictGet(analysis, "potential_bugs", <<>>)),
            analysis),
        analysis)

_calculate_quality_score(analysis) == Clamp(RawScore(analysis))

(***************************************************************************)
(* File analysis assembler: CodeAnalyzer.analyze_file.  A file is          *)
(* [status, lines, tree]: status says what reading and parsing it does     *)
(* ("read_error": open or read raises; "parse_error": ast.parse raises;    *)
(* "resource_error": a later stage raises, e.g. MemoryError; "ok").        *)
(***************************************************************************)
File(status, lines, tree) == [status |-> status, lines |-> lines, tree |-> tree]

\* except Exception as e: return {...}
failure_variant(file_path, e, t) ==
    [file_path |-> file_path, error |-> e, analyzed_at |-> t]

\* the dict literal of the try block
analysis_literal(self, file_path, file, t) ==
    [file_path |-> file_path,
     lines_of_code |-> Len(file.lines),
     complexity |-> _calculate_complexity(file.tree),
     patterns |-> _extract_patterns(file.tree),
     functions |-> _analyze_functions(file.tree),
     classes |-> _analyze_classes(file.tree),
     imports |-> _analyze_imports(file.tree),
     potential_bugs |-> _detect_potential_bugs(self, file.lines),
     optimization_opportunities |-> _find_optimizations(self, file.lines),
     code_quality_score |-> Points(0),
     analyzed_at |-> t]

\* the placeholder score 0.0 returned: line 126 left out
analyze_file_score_not_filled(self, file_path, file, t) ==
    IF file.status # "ok" THEN failure_variant(file_path, file.status, t)
    ELSE analysis_literal(self, file_path, file, t)

\* the handler returning what had been computed, with the error added
analyze_file_partial(self, file_path, file, t) ==
    IF file.status \in {"read_error", "parse_error"}
    THEN failure_variant(file_path, file.status, t)
    ELSE IF file.status = "resource_error"
    THEN [file_path |-> file_path, lines_of_code |-> Len(file.lines),
          error |-> file.status, analyzed_at |-> t]
    ELSE LET analysis == analysis_literal(self, file_path, file, t)
         IN  [analysis EXCEPT !.code_quality_score = _calculate_quality_score(analysis)]

CodeAnalyzer_analyze_file(self, file_path, file, t) ==
    IF file.status = "read_error" THEN failure_variant(file_path, file.status, t)
    ELSE IF file.status = "parse_error" THEN failure_variant(file_path, file.status, t)
    ELSE IF file.status = "resource_error" THEN failure_variant(file_path, file.status, t)
    ELSE LET analysis == analysis_literal(self, file_path, file, t)
         IN  [analysis EXCEPT !.code_quality_score = _calculate_quality_score(analysis)]

IsFailure(analysis) == "error" \in DOMAIN analysis

(***************************************************************************)
(* Writing the source under analysis (single-call specifications).  Nodes  *)
(* are appended in source order: the parent of a new node is on the        *)
(* rightmost path.  An ExceptHandler hangs under a Try (or a TryStar, an   *)
(* "Other"); below a comprehension there are only expressions.             *)
(***************************************************************************)
NodeSamples ==
    {<<k, None>> : k \in {"If", "For", "While", "Try", "ExceptHandler",
                          "AsyncFunctionDef", "ClassDef", "Comp", "Other"}}
    \cup {<<"FunctionDef", d>> : d \in {None, "Empty", "Text"}}

RECURSIVE AncestorsOrSelf(_, _)
AncestorsOrSelf(tree, node) ==
    IF node = 0 THEN {} ELSE {node} \cup AncestorsOrSelf(tree, tree[node].parent)

ValidChild(tree, parent, kind) ==
    /\ kind = "ExceptHandler" => tree[parent].kind \in {"Try", "Other"}
    /\ (\E a \in AncestorsOrSelf(tree, parent) : tree[a].kind = "Comp")
          => kind \in {"Comp", "Other"}

\* line profiles: the rules whose expression re.search finds in the line.  No line
\* matches duplicate_code, list_comprehension or repeated_calculation (they need a
\* newline inside the line, and splitlines leaves none), nor unused_variable
\* together with global_variable.
Matching(rules) == {PatternOf(r) : r \in rules}

PlainLine == Matching({})

LineSamples ==
    {PlainLine,
     Matching({"bare_except"}),
     Matching({"mutable_default"}),
     Matching({"unused_variable", "magic_number"}),
     Matching({"global_variable"}),
     Matching({"long_line", "deep_nesting", "magic_number", "bare_except", "mutable_default"}),
     Matching({"string_concatenation", "inefficient_membership"})}

NodeCount(file) == Len(file.tree) - Len(<<ModuleNode>>)

NoSys ==
    /\ files = <<>> /\ analyzer = CodeAnalyzer_init /\ analysis_history = <<>>
    /\ developer_id = "default" /\ now = 0 /\ ret = None /\ summary = None /\ calls = <<>>

InitAnalysis ==
    /\ input = File("ok", <<>>, <<ModuleNode>>)
    /\ output = None
    /\ pc = "input"
    /\ NoSys

\* a line of comment or of simple statements, written before any compound statement
WriteLine(line) ==
    /\ pc = "input"
    /\ NodeCount(input) = 0
    /\ Len(input.lines) < MaxLines
    /\ input' = [input EXCEPT !.lines = Append(@, line)]
    /\ UNCHANGED <<output, pc, sysvars>>

\* a statement or expression node, on a line of its own that matches no rule
WriteNode(kind, doc, parent) ==
    /\ pc = "input"
    /\ NodeCount(input) < MaxNodes
    /\ NodeCount(input) < MaxTextNodes \/ Len(input.lines) = NodeCount(input)
    /\ parent \in AncestorsOrSelf(input.tree, Len(input.tree))
    /\ ValidChild(input.tree, parent, kind)
    /\ input' = [input EXCEPT !.tree = Append(@, Node(kind, parent, doc)),
                              !.lines = Append(@, PlainLine)]
    /\ UNCHANGED <<output, pc, sysvars>>

\* one CodeAnalyzer.analyze_file call on the file written
Analyze ==
    /\ pc = "input"
    /\ output' = CodeAnalyzer_analyze_file(analyzer, "input.py", input, now)
    /\ pc' = "done"
    /\ UNCHANGED <<input, sysvars>>

NextAnalysis ==
    \/ \E line \in LineSamples : WriteLine(line)
    \/ \E s \in NodeSamples, parent \in 1..MaxNodes : WriteNode(s[1], s[2], parent)
    \/ Analyze

SpecAnalysis == InitAnalysis /\ [][NextAnalysis]_vars

(***************************************************************************)
(* The score composer alone: the analysis dict it is given is put together *)
(* piece by piece, then _calculate_quality_score is applied to it.         *)
(***************************************************************************)
Severities == {"low", "medium", "high", "critical"}

Diagnostic(severity) == [type |-> "rule", line |-> 1, severity |-> severity]

Hint == [type |-> "string_concatenation", line |-> 1, impact |-> "high"]

InitScore ==
    /\ input = [potential_bugs |-> <<>>, complexity |-> EmptyDict, functions |-> <<>>,
                optimization_opportunities |-> <<>>]
    /\ output = None
    /\ pc = "input"
    /\ NoSys

AddDiagnostic(severity) ==
    /\ pc = "input"
    /\ Len(input.potential_bugs) < MaxDiags
    /\ input' = [input EXCEPT !.potential_bugs = Append(@, Diagnostic(severity))]
    /\ UNCHANGED <<output, pc, sysvars>>

SetComplexity(m) ==
    /\ pc = "input"
    /\ input.complexity = EmptyDict
    /\ input' = [input EXCEPT !.complexity = DictSet(@, "max_function_complexity", m)]
    /\ UNCHANGED <<output, pc, sysvars>>

AddFunction(doc) ==
    /\ pc = "input"
    /\ Len(input.functions) < MaxFuncs
    /\ input' = [input EXCEPT !.functions =
                    Append(@, [node |-> Len(@) + 1, docstring |-> doc, is_async |-> FALSE])]
    /\ UNCHANGED <<output, pc, sysvars>>

AddHint ==
    /\ pc = "input"
    /\ input.optimization_opportunities = <<>>
    /\ input' = [input EXCEPT !.optimization_opportunities = <<Hint>>]
    /\ UNCHANGED <<output, pc, sysvars>>

ComposeScore ==
    /\ pc = "input"
    /\ output' = _calculate_quality_score(input)
    /\ pc' = "done"
    /\ UNCHANGED <<input, sysvars>>

NextScore ==
    \/ \E severity \in Severities : AddDiagnostic(severity)
    \/ \E m \in 0..MaxComplexity : SetComplexity(m)
    \/ \E doc \in {None, "Empty", "Text"} : AddFunction(doc)
    \/ AddHint
    \/ ComposeScore

SpecScore == InitScore /\ [][NextScore]_vars

(***************************************************************************)
(* AdaptiveCodeIntelligence: analyze_file, analyze_directory and the       *)
(* directory summary.  A path is the index of the file in the discovery    *)
(* order; path 0 names no file.                                            *)
(***************************************************************************)
MissingFile == File("read_error", <<>>, <<>>)

BrokenFile == File("parse_error", <<PlainLine>>, <<>>)

HugeFile == File("resource_error", <<PlainLine>>, <<ModuleNode>>)

EmptyFile == File("ok", <<>>, <<ModuleNode>>)

DocumentedFile ==
    File("ok", <<PlainLine, PlainLine, PlainLine>>,
         <<ModuleNode, Node("ImportStandard", Root, None), Node("FunctionDef", Root, "Text")>>)

ListDefaultFile ==
    File("ok", <<Matching({"mutable_default"})>>, <<ModuleNode, Node("FunctionDef", Root, None)>>)

AsyncBranchFile ==
    File("ok", <<PlainLine, PlainLine>>,
         <<ModuleNode, Node("AsyncFunctionDef", Root, None), Node("If", Root + Root, None)>>)

SampleFiles ==
    {BrokenFile, HugeFile, EmptyFile, DocumentedFile, ListDefaultFile, AsyncBranchFile}

\* a discovered file: whether its name starts with a dot, and what it holds
Entries ==
    {[hidden |-> FALSE, file |-> f] : f \in SampleFiles}
    \cup {[hidden |-> TRUE, file |-> DocumentedFile]}

ReadFile(file_path) ==
    IF file_path \in DOMAIN files THEN files[file_path].file ELSE MissingFile

Init ==
    /\ \E n \in 0..MaxFiles : files \in [1..n -> Entries]
    /\ analyzer = CodeAnalyzer_init
    /\ analysis_history = <<>>
    /\ developer_id = "default"
    /\ now = 0
    /\ ret = [op |-> "none"]
    /\ summary = [printed |-> "nothing"]
    /\ calls = <<>>
    /\ input = None /\ output = None /\ pc = "sys"

\* the instance and its environment, as the body of analyze_file changes them
Current ==
    [developer_id |-> developer_id, analysis_history |-> analysis_history,
     now |-> now, calls |-> calls]

\* the history append moved out of the 'error' not in analysis test
analyze_file_body_recording_all(st, file_path, dev) ==
    LET analysis == CodeAnalyzer_analyze_file(analyzer, file_path, ReadFile(file_path), st.now)
    IN  [developer_id |-> IF dev # None THEN dev ELSE st.developer_id,
         analysis_history |-> Append(st.analysis_history, analysis),
         now |-> st.now + 1,
         calls |-> Append(st.calls, [path |-> file_path, file |-> ReadFile(file_path),
                                     result |-> analysis]),
         returned |-> analysis]

\* the body of AdaptiveCodeIntelligence.analyze_file
analyze_file_body(st, file_path, dev) ==
    LET analysis == CodeAnalyzer_analyze_file(analyzer, file_path, ReadFile(file_path), st.now)
    IN  [developer_id |-> IF dev # None THEN dev ELSE st.developer_id,
         analysis_history |-> IF ~IsFailure(analysis)
                              THEN Append(st.analysis_history, analysis)
                              ELSE st.analysis_history,
         now |-> st.now + 1,
         calls |-> Append(st.calls, [path |-> file_path, file |-> ReadFile(file_path),
                                     result |-> analysis]),
         returned |-> analysis]

\* the loop stopping at the first file that fails
RECURSIVE directory_loop_aborting(_, _, _, _)
directory_loop_aborting(i, st, results, dev) ==
    IF i > Len(files) THEN [st |-> st, results |-> results]
    ELSE IF files[i].hidden THEN directory_loop_aborting(i + 1, st, results, dev)
    ELSE LET after == analyze_file_body(st, i, dev)
         IN  IF IsFailure(after.returned)
             THEN [st |-> after, results |-> Append(results, after.returned)]
             ELSE directory_loop_aborting(i + 1, after, Append(results, after.returned), dev)

\* for file_path in python_files: skip dot-prefixed names, analyse, append
RECURSIVE directory_loop(_, _, _, _)
directory_loop(i, st, results, dev) ==
    IF i > Len(files) THEN [st |-> st, results |-> results]
    ELSE IF files[i].hidden THEN directory_loop(i + 1, st, results, dev)
    ELSE LET after == analyze_file_body(st, i, dev)
         IN  directory_loop(i + 1, after, Append(results, after.returned), dev)

\* max(..., key=score) keeping the last of equal scores
RECURSIVE max_keeping_last(_, _)
max_keeping_last(best, rest) ==
    IF rest = <<>> THEN best
    ELSE max_keeping_last(IF Head(rest).code_quality_score >= best.code_quality_score
                          THEN Head(rest) ELSE best, Tail(rest))

\* max(valid_results, key=lambda x: x['code_quality_score']): replaced only by a larger key
RECURSIVE max_by_score(_, _)
max_by_score(best, rest) ==
    IF rest = <<>> THEN best
    ELSE max_by_score(IF Head(rest).code_quality_score > best.code_quality_score
                      THEN Head(rest) ELSE best, Tail(rest))

\* what _generate_directory_summary prints
_generate_directory_summary(results) ==
    LET valid_results == SelectSeq(results, LAMBDA r : ~IsFailure(r))
    IN  IF Len(results) = 0 THEN [printed |-> "nothing"]
        ELSE IF Len(valid_results) = 0 THEN [printed |-> "no_valid"]
        ELSE [printed |-> "summary",
              files_analyzed |-> Len(valid_results),
              total_lines |-> SumSeq(Map(valid_results, LAMBDA r : r.lines_of_code)),
              avg_quality |-> <<SumSeq(Map(valid_results, LAMBDA r : r.code_quality_score)),
                                Len(valid_results)>>,
              total_bugs |-> SumSeq(Map(valid_results, LAMBDA r : Len(r.potential_bugs))),
              total_optimizations |->
                  SumSeq(Map(valid_results, LAMBDA r : Len(r.optimization_opportunities))),
              best_file |-> max_by_score(Head(valid_results), Tail(valid_results))]

VisibleCount == Len(SelectSeq(files, LAMBDA e : ~e.hidden))

analyze_file(file_path, dev) ==
    /\ pc = "sys"
    /\ Len(calls) < MaxCalls
    /\ LET after == analyze_file_body(Current, file_path, dev)
       IN  /\ developer_id' = after.developer_id
           /\ analysis_history' = after.analysis_history
           /\ now' = after.now
           /\ calls' = after.calls
           /\ ret' = [op |-> "analyze_file", value |-> after.returned]
    /\ UNCHANGED <<files, analyzer, summary, input, output, pc>>

analyze_directory(dev) ==
    /\ pc = "sys"
    /\ Len(calls) + VisibleCount <= MaxCalls
    /\ LET start == [Current EXCEPT !.developer_id = IF dev # None THEN dev ELSE @]
           done == directory_loop(1, start, <<>>, dev)
       IN  /\ developer_id' = done.st.developer_id
           /\ analysis_history' = done.st.analysis_history
           /\ now' = done.st.now
           /\ calls' = done.st.calls
           /\ summary' = _generate_directory_summary(done.results)
           /\ ret' = [op |-> "analyze_directory", value |-> done.results]
    /\ UNCHANGED <<files, analyzer, input, output, pc>>

\* a query: it reads the instance and changes nothing
get_system_stats ==
    [files_analyzed |-> Len(analysis_history), storage_path |-> "code_intelligence.db"]

Developers == {None, "demo_developer"}

Next ==
    \/ \E file_path \in 0..MaxFiles, dev \in Developers :
          file_path <= Len(files) /\ analyze_file(file_path, dev)
    \/ \E dev \in Developers : analyze_directory(dev)

Spec == Init /\ [][Next]_vars

(***************************************************************************)
(* Properties of the score composer (SpecScore)                            *)
(***************************************************************************)
\* C1: for every input that parses, the code_quality_score returned is a value in
\* [0, 100] inclusive, whatever the diagnostics, the max_function_complexity and
\* the docstring ratio.
C1_ScoreInRange ==
    pc = "done" => (Points(0) <= output /\ output <= Points(100))

\* C1 witness: a composed score whose unclamped value was below zero
C1_Witness == pc = "done" /\ RawScore(input) < Points(0) /\ output = Points(0)

InsertAt(s, i, x) == SubSeq(s, 1, i) \o <<x>> \o SubSeq(s, i + 1, Len(s))

\* the same analysis with one more high-severity diagnostic, put after the first i
WithOneMoreHigh(analysis, i) ==
    [analysis EXCEPT !.potential_bugs = InsertAt(@, i, Diagnostic("high"))]

\* C3 as claimed: one more high-severity diagnostic lowers the score by exactly 10,
\* or leaves it clamped at 0.
C3_AsClaimed ==
    pc = "done" =>
        \A i \in 0..Len(input.potential_bugs) :
            LET after == _calculate_quality_score(WithOneMoreHigh(input, i))
            IN  after = output - Points(10) \/ after = Points(0)

\* C3 amended: one more high-severity diagnostic lowers the unclamped value by
\* exactly 10 and never raises the score; the score falls by exactly 10 when the
\* unclamped value was in [10, 100], is 0 when it was below 10, and is
\* min(100, unclamped - 10) when the docstring bonus had lifted it above 100.
C3_Monotone ==
    pc = "done" =>
        \A i \in 0..Len(input.potential_bugs) :
            LET more == WithOneMoreHigh(input, i)
                before == RawScore(input)
                after == _calculate_quality_score(more)
            IN  /\ RawScore(more) = before - Points(10)
                /\ after <= output
                /\ (Points(10) <= before /\ before <= Points(100))
                      => after = output - Points(10)
                /\ before < Points(10) => after = Points(0)
                /\ before > Points(100)
                      => after = Min(Points(100), before - Points(10))

\* C3 witness: a composed score that the docstring bonus had lifted above 100
C3_Witness ==
    pc = "done" /\ RawScore(input) > Points(100) /\ input.potential_bugs # <<>>

CountSeverity(bugs, severity) == Count(bugs, LAMBDA b : b.severity = severity)

\* the formula of the claim, a function with a docstring being one whose first
\* statement is a string literal (get_docstring is not None)
ClaimedScore(analysis) ==
    LET bugs == analysis.potential_bugs
        m == DictGet(analysis.complexity, "max_function_complexity", 0)
        n == Len(analysis.functions)
        d == Count(analysis.functions, LAMBDA f : f.docstring # None)
        raw == Points(100)
               - Points(20 * CountSeverity(bugs, "critical") + 10 * CountSeverity(bugs, "high")
                        + 5 * CountSeverity(bugs, "medium") + 2 * CountSeverity(bugs, "low"))
               - (IF m > 10 THEN Points(3 * (m - 10)) ELSE 0)
               + (IF n > 0 THEN Points(10 * d) \div n ELSE 0)
    IN  Max(Points(0), Min(Points(100), raw))

\* the same, a function with a docstring being one whose docstring is a non-empty string
ScoreFormula(analysis) ==
    LET bugs == analysis.potential_bugs
        m == DictGet(analysis.complexity, "max_function_complexity", 0)
        n == Len(analysis.functions)
        d == Count(analysis.functions, LAMBDA f : f.docstring = "Text")
        raw == Points(100)
               - Points(20 * CountSeverity(bugs, "critical") + 10 * CountSeverity(bugs, "high")
                        + 5 * CountSeverity(bugs, "medium") + 2 * CountSeverity(bugs, "low"))
               - (IF m > 10 THEN Points(3 * (m - 10)) ELSE 0)
               + (IF n > 0 THEN Points(10 * d) \div n ELSE 0)
    IN  Max(Points(0), Min(Points(100), raw))

Reordered(s, perm) == [i \in 1..Len(s) |-> s[perm[i]]]

\* every reordering of the diagnostics and any change of the hints gives the same score
OrderAndHintsDoNotMatter ==
    /\ \A perm \in Permutations(1..Len(input.potential_bugs)) :
          _calculate_quality_score(
              [input EXCEPT !.potential_bugs = Reordered(@, perm)]) = output
    /\ _calculate_quality_score([input EXCEPT !.optimization_opportunities = <<>>]) = output
    /\ _calculate_quality_score([input EXCEPT !.optimization_opportunities = <<Hint, Hint>>])
          = output

\* one function, max_function_complexity 11, no docstring, no diagnostics: 97.0
ScenarioB ==
    (/\ input.potential_bugs = <<>>
     /\ DictGet(input.complexity, "max_function_complexity", 0) = 11
     /\ Len(input.functions) = 1 /\ input.functions[1].docstring = None)
        => output = Points(97)

\* C4 as claimed: the score is the clamped sum 100 - penalties - 3 x (complexity
\* over 10) + 10 x (docstringed / total functions), whatever the order of the
\* diagnostics and whatever the hints; Scenario B scores 97.0.
C4_AsClaimed ==
    pc = "done" => (output = ClaimedScore(input) /\ OrderAndHintsDoNotMatter /\ ScenarioB)

\* C4, what holds: the same with the bonus counting only non-empty docstrings
C4_NonEmptyDocstrings ==
    pc = "done" => (output = ScoreFormula(input) /\ OrderAndHintsDoNotMatter /\ ScenarioB)

(***************************************************************************)
(* Properties of one analysis (SpecAnalysis)                               *)
(***************************************************************************)
IsEmptyFile(file) == file.status = "ok" /\ file.lines = <<>> /\ file.tree = <<ModuleNode>>

\* C6: an empty file yields a success result with no bug diagnostics, no functions,
\* max_function_complexity 0 and code_quality_score 100.0.
C6_EmptyFile ==
    (pc = "done" /\ IsEmptyFile(input)) =>
        /\ ~IsFailure(output)
        /\ output.potential_bugs = <<>>
        /\ output.functions = <<>>
        /\ DictGet(output.complexity, "max_function_complexity", 0) = 0
        /\ output.code_quality_score = Points(100)

\* C6 witness: the empty file has been analysed
C6_Witness == pc = "done" /\ IsEmptyFile(input) /\ output.lines_of_code = 0

\* the nodes of the subtree of `node`, by the parent links
Subtree(tree, node) == {n \in 1..Len(tree) : node \in AncestorsOrSelf(tree, n)}

\* local complexity: the if/for/while nodes of the function's subtree
LocalComplexity(tree, node) ==
    Cardinality({n \in Subtree(tree, node) : tree[n].kind \in BranchKinds})

MaxSoFar(tree, k) == DictGet(complexity_after(tree, k), "max_function_complexity", 0)

\* C9: max_function_complexity starts from zero, never decreases as the traversal
\* visits the nodes, and ends at least as large as the local complexity of every
\* function found, sync or async; every metric count is >= 0.
C9_RunningMaximum ==
    (pc = "done" /\ ~IsFailure(output)) =>
        LET tree == input.tree
            final == DictGet(output.complexity, "max_function_complexity", 0)
        IN  /\ MaxSoFar(tree, 0) = 0
            /\ \A k \in 1..Len(walk(tree, Root)) : MaxSoFar(tree, k - 1) <= MaxSoFar(tree, k)
            /\ final = MaxSoFar(tree, Len(walk(tree, Root)))
            /\ \A n \in 1..Len(tree) :
                  tree[n].kind \in FunctionKinds => final >= LocalComplexity(tree, n)
            /\ \A key \in DOMAIN output.complexity : output.complexity[key] >= 0

\* C9 witness: a function visited when the running maximum was already larger than
\* its own local complexity, after an async function had been visited
C9_Witness ==
    /\ pc = "done"
    /\ \E k \in 2..Len(walk(input.tree, Root)) :
          LET n == walk(input.tree, Root)[k]
          IN  /\ input.tree[n].kind \in FunctionKinds
              /\ LocalComplexity(input.tree, n) < MaxSoFar(input.tree, k - 1)
    /\ \E n \in 1..Len(input.tree) : input.tree[n].kind = "AsyncFunctionDef"

ClaimedSeverity(rule) ==
    CASE rule \in {"bare_except", "mutable_default"} -> "high"
      [] rule \in {"duplicate_code", "deep_nesting", "global_variable"} -> "medium"
      [] OTHER -> "low"

WithoutDiagnostic(analysis, i) ==
    [analysis EXCEPT !.potential_bugs = SubSeq(@, 1, i - 1) \o SubSeq(@, i + 1, Len(@))]

\* C10: the severity of every diagnostic is the fixed value of its rule (unknown
\* rule ids: low); no diagnostic is critical and none costs more than 10 points.
C10_FixedSeverity ==
    /\ \A rule \in {BugRules[i] : i \in DOMAIN BugRules} \cup {"unknown_rule"} :
          _assess_bug_severity(rule) = ClaimedSeverity(rule)
    /\ (pc = "done" /\ ~IsFailure(output)) =>
          \A i \in DOMAIN output.potential_bugs :
              /\ output.potential_bugs[i].severity
                    = ClaimedSeverity(output.potential_bugs[i].type)
              /\ output.potential_bugs[i].severity # "critical"
              /\ RawScore(WithoutDiagnostic(output, i)) - RawScore(output) <= Points(10)

\* C10 witness: an analysis that reported diagnostics of all three severities in use
C10_Witness ==
    /\ pc = "done"
    /\ \A severity \in {"low", "medium", "high"} :
          \E i \in DOMAIN output.potential_bugs :
              output.potential_bugs[i].severity = severity

PatternKinds == [function |-> {"FunctionDef"}, class |-> {"ClassDef"}, loop |-> LoopKinds]

\* the positions in `patterns` of the records of one type about one node
PatternsAbout(patterns, type, node) ==
    {i \in DOMAIN patterns : patterns[i].type = type /\ patterns[i].node = node}

\* C11: the pattern list holds exactly one function record per function-def node,
\* one class record per class-def node and one loop record per for/while node, and
\* nothing else (an async-function-def is another kind of node and has no record);
\* methods_count is the number of function-def nodes that are immediate children of
\* the class; nested_loops is the number of for/while nodes strictly below the loop.
C11_PatternRecords ==
    (pc = "done" /\ ~IsFailure(output)) =>
        LET tree == input.tree
            patterns == output.patterns
        IN  /\ \A type \in DOMAIN PatternKinds, n \in 1..Len(tree) :
                  Cardinality(PatternsAbout(patterns, type, n))
                     = (IF tree[n].kind \in PatternKinds[type] THEN 1 ELSE 0)
            /\ \A i \in DOMAIN patterns :
                  /\ patterns[i].type \in DOMAIN PatternKinds
                  /\ patterns[i].node \in 1..Len(tree)
                  /\ patterns[i].type = "class" =>
                        patterns[i].methods_count
                           = Cardinality({m \in 1..Len(tree) :
                                            /\ tree[m].parent = patterns[i].node
                                            /\ tree[m].kind = "FunctionDef"})
                  /\ patterns[i].type = "loop" =>
                        patterns[i].nested_loops
                           = Cardinality({m \in Subtree(tree, patterns[i].node) :
                                            /\ m # patterns[i].node
                                            /\ tree[m].kind \in LoopKinds})

\* C11 witness: a class with one method, the method holding a nested function
C11_Witness ==
    /\ pc = "done"
    /\ \E i \in DOMAIN output.patterns :
          /\ output.patterns[i].type = "class"
          /\ output.patterns[i].methods_count = 1
          /\ Cardinality({m \in Subtree(input.tree, output.patterns[i].node) :
                            input.tree[m].kind = "FunctionDef"}) > 1

\* the positions in `bugs` of the diagnostics of one rule on one line
DiagnosticsOf(bugs, line_num, rule) ==
    {i \in DOMAIN bugs : bugs[i].line = line_num /\ bugs[i].type = rule}

\* the rule ids reported for one line, in the order reported
TypesOnLine(bugs, line_num) ==
    Map(SelectSeq(bugs, LAMBDA b : b.line = line_num), LAMBDA b : b.type)

\* C12: there are eight bug rules; every (line, rule) pair yields one diagnostic if
\* the rule's expression is found in the line and none otherwise, so a line has at
\* most eight; line numbers lie in 1..lines_of_code and never decrease along the
\* list; and what is reported for a line is what is reported for a file made of
\* that line alone.
C12_LexicalScan ==
    (pc = "done" /\ ~IsFailure(output)) =>
        LET bugs == output.potential_bugs
            lines == input.lines
        IN  /\ Len(analyzer.bug_patterns) = 8
            /\ \A i \in 1..Len(lines), k \in DOMAIN analyzer.bug_patterns :
                  Cardinality(DiagnosticsOf(bugs, i, analyzer.bug_patterns[k][1]))
                     = (IF analyzer.bug_patterns[k][2] \in lines[i] THEN 1 ELSE 0)
            /\ \A i \in 1..Len(lines) : Len(TypesOnLine(bugs, i)) <= 8
            /\ \A i \in DOMAIN bugs : bugs[i].line \in 1..output.lines_of_code
            /\ \A i, j \in DOMAIN bugs : i <= j => bugs[i].line <= bugs[j].line
            /\ \A i \in 1..Len(lines) :
                  TypesOnLine(bugs, i)
                     = TypesOnLine(_detect_potential_bugs(analyzer, <<lines[i]>>), 1)

\* C12 witness: a second line reported by five rules, after a first line reported too
C12_Witness ==
    /\ pc = "done"
    /\ Len(TypesOnLine(output.potential_bugs, 1)) > 0
    /\ Len(TypesOnLine(output.potential_bugs, 2)) = 5

FunctionPatternCount(analysis) == Count(analysis.patterns, LAMBDA p : p.type = "function")

AsyncCount(tree) == Cardinality({n \in 1..Len(tree) : tree[n].kind = "AsyncFunctionDef"})

\* C13 as claimed: on every successful analysis the 'functions' metric, the length
\* of the function list and the number of function pattern records are equal,
\* whatever mix of sync and async function definitions the file holds.
C13_AsClaimed ==
    (pc = "done" /\ ~IsFailure(output)) =>
        /\ DictGet(output.complexity, "functions", 0) = Len(output.functions)
        /\ Len(output.functions) = FunctionPatternCount(output)

\* C13, what the code does: the function list and the function patterns agree and
\* hold the sync definitions only; the metric counts the async definitions too, and
\* no entry of the list is ever marked is_async.
C13_AsyncLeftOut ==
    (pc = "done" /\ ~IsFailure(output)) =>
        /\ Len(output.functions) = FunctionPatternCount(output)
        /\ DictGet(output.complexity, "functions", 0)
              = Len(output.functions) + AsyncCount(input.tree)
        /\ \A i \in DOMAIN output.functions : ~output.functions[i].is_async

\* whether the bonus counts a function: alone in the list, it earns a bonus or not
CountedInBonus(f) == score_after_bonus(Points(0), [functions |-> <<f>>]) > Points(0)

\* whether the function pattern record of the node reports docstring = True
PatternReportsDocstring(analysis, node) ==
    \E i \in DOMAIN analysis.patterns :
       /\ analysis.patterns[i].type = "function"
       /\ analysis.patterns[i].node = node
       /\ analysis.patterns[i].docstring

\* C14 as claimed: a function is counted as docstringed by the score bonus if and
\* only if its function pattern record reports docstring = True, for every docstring
\* value, the empty and the whitespace-only string literal included.
C14_AsClaimed ==
    (pc = "done" /\ ~IsFailure(output)) =>
        \A i \in DOMAIN output.functions :
            CountedInBonus(output.functions[i])
               <=> PatternReportsDocstring(output, output.functions[i].node)

\* C14, what the code does: the pattern record reports a docstring whenever the first
\* statement is a string literal; the bonus counts the function only if the cleaned
\* docstring is not the empty string.
C14_EmptyNotCounted ==
    (pc = "done" /\ ~IsFailure(output)) =>
        \A i \in DOMAIN output.functions :
            LET node == output.functions[i].node
            IN  /\ PatternReportsDocstring(output, node) <=> input.tree[node].doc # None
                /\ CountedInBonus(output.functions[i]) <=> input.tree[node].doc = "Text"

(***************************************************************************)
(* Properties of the system (Spec)                                         *)
(***************************************************************************)
FailureFields == {"file_path", "error", "analyzed_at"}

SuccessFields ==
    {"file_path", "lines_of_code", "complexity", "patterns", "functions", "classes",
     "imports", "potential_bugs", "optimization_opportunities", "code_quality_score",
     "analyzed_at"}

\* C2: every CodeAnalyzer.analyze_file call returns a result, and the result is one
\* of two variants: the failure variant, holding file_path, error and analyzed_at
\* only, when reading, parsing or a later stage fails; otherwise the success variant,
\* holding every analysis field and no error.  Nothing in between is returned.
C2_TwoVariants ==
    /\ \A i \in DOMAIN calls :
          IF calls[i].file.status = "ok"
          THEN DOMAIN calls[i].result = SuccessFields
          ELSE /\ DOMAIN calls[i].result = FailureFields
               /\ calls[i].result.error = calls[i].file.status
               /\ calls[i].result.file_path = calls[i].path
    /\ ret.op = "analyze_file" => ret.value = calls[Len(calls)].result

\* a missing file, a file whose later stage fails and a good file have been analysed
C2_Witness ==
    /\ \E i \in DOMAIN calls : calls[i].file.status = "read_error"
    /\ \E i \in DOMAIN calls : calls[i].file.status = "resource_error"
    /\ \E i \in DOMAIN calls : calls[i].file.status = "ok" /\ ~IsFailure(calls[i].result)

SameButTime(r1, r2) ==
    /\ DOMAIN r1 = DOMAIN r2
    /\ \A f \in DOMAIN r1 \ {"analyzed_at"} : r1[f] = r2[f]

RECURSIVE LinesOfSuccesses(_, _)
LinesOfSuccesses(results, k) ==
    IF k = 0 THEN 0
    ELSE LinesOfSuccesses(results, k - 1)
         + (IF IsFailure(results[k]) THEN 0 ELSE results[k].lines_of_code)

Successes(results) == {i \in DOMAIN results : ~IsFailure(results[i])}

\* C7: in a printed directory summary the total of lines is the sum of lines_of_code
\* over the successful results, and the best file is the first result, in traversal
\* order, among the successful results of maximal code_quality_score.
C7_DirectorySummary ==
    (ret.op = "analyze_directory" /\ summary.printed = "summary") =>
       /\ summary.total_lines = LinesOfSuccesses(ret.value, Len(ret.value))
       /\ \E i \in Successes(ret.value) :
             /\ summary.best_file = ret.value[i]
             /\ \A j \in Successes(ret.value) :
                   /\ ret.value[j].code_quality_score <= ret.value[i].code_quality_score
                   /\ j < i => ret.value[j].code_quality_score
                                  < ret.value[i].code_quality_score

\* a summary over two successful results of equal score and different length
C7_Witness ==
    /\ ret.op = "analyze_directory"
    /\ summary.printed = "summary"
    /\ \E i, j \in Successes(ret.value) :
          /\ i < j
          /\ ret.value[i].code_quality_score = ret.value[j].code_quality_score
          /\ ret.value[i].lines_of_code # ret.value[j].lines_of_code
          /\ summary.best_file = ret.value[i]
          /\ summary.total_lines > ret.value[i].lines_of_code

VisiblePaths == SelectSeq([i \in 1..Len(files) |-> i], LAMBDA i : ~files[i].hidden)

\* C8: analyze_directory returns one record per discovered file whose name is not
\* dot-prefixed, in discovery order; the record of a file that fails is a failure
\* record, and the files after it are analysed all the same.
C8_OneRecordPerFile ==
    ret.op = "analyze_directory" =>
       /\ Len(ret.value) = Len(VisiblePaths)
       /\ \A k \in DOMAIN ret.value :
             /\ k <= Len(VisiblePaths)
             /\ ret.value[k].file_path = VisiblePaths[k]
             /\ IsFailure(ret.value[k]) <=> files[VisiblePaths[k]].file.status # "ok"

\* a directory whose first file fails and whose second file is analysed
C8_Witness ==
    /\ ret.op = "analyze_directory"
    /\ Len(ret.value) = MaxFiles
    /\ IsFailure(ret.value[1])
    /\ \E k \in DOMAIN ret.value : k > 1 /\ ~IsFailure(ret.value[k])

\* the results of the successful analyses made so far, in the order made
SuccessesSoFar ==
    Map(SelectSeq(calls, LAMBDA c : ~IsFailure(c.result)), LAMBDA c : c.result)

IsPrefix(s, t) == Len(s) <= Len(t) /\ SubSeq(t, 1, Len(s)) = s

HistoryOfSuccesses ==
    /\ analysis_history = SuccessesSoFar
    /\ \A i \in DOMAIN analysis_history : ~IsFailure(analysis_history[i])
    /\ get_system_stats.files_analyzed
          = Cardinality({i \in DOMAIN calls : calls[i].file.status = "ok"})

\* C15: after any sequence of analyze_file and analyze_directory calls the history
\* holds exactly the success results in the order produced and no failure record,
\* files_analyzed is the number of successful analyses so far, and every step leaves
\* the entries already in the history in place, unchanged.
C15_HistoryGrows ==
    /\ []HistoryOfSuccesses
    /\ [][IsPrefix(analysis_history, analysis_history')]_vars

\* C15 witness: two successes in the history with a failed analysis made in between
C15_Witness ==
    /\ Len(analysis_history) = 2
    /\ \E i \in DOMAIN calls :
          /\ IsFailure(calls[i].result)
          /\ calls[i].result.analyzed_at > analysis_history[1].analyzed_at
          /\ calls[i].result.analyzed_at < analysis_history[2].analyzed_at

====
